---------------------------- MODULE Spec2Model ----------------------------
(***************************************************************************)
(* ChemBond Tutor API (src/main.py): the three request handlers chat,      *)
(* generate_quiz and analyze_molecule, the helpers normalize_formula and   *)
(* make_lewis_svg, and the tables MOLECULE_DB and QUIZ_BANK they read.     *)
(*                                                                         *)
(* Text is modelled by TLA+ strings, examined character by character with  *)
(* SubSeq.  TLA+ strings are ASCII, so the non-ASCII characters of the     *)
(* source are written with ASCII stand-ins of the same length where a      *)
(* length matters: the dashes and the minus sign as "-", the triple bond   *)
(* as "#", the middle dot as MIDDLE_DOT; the degree sign is DEGREE, the    *)
(* arrow "->" and the ellipsis "...".                                      *)
(***************************************************************************)
EXTENDS Integers, Sequences, FiniteSets, TLC

VARIABLES
    MOLECULE_DB,   \* the knowledge base, in insertion order (main.py:25)
    QUIZ_BANK,     \* topic -> list of templates (main.py:249)
    pc,            \* "idle": waiting for a request; "done": a response is built
    op,            \* the handler that built the response
    req,           \* the request body of the handler
    resp           \* the response the handler returned

vars == <<MOLECULE_DB, QUIZ_BANK, pc, op, req, resp>>

(***************************************************************************)
(* Bounds of the model.                                                    *)
(***************************************************************************)
MaxLen == 4          \* longest diagram text given to make_lewis_svg directly
MaxFormulaLen == 2   \* longest formula enumerated over FormulaAlphabet
MaxBelow == 2        \* requested counts below 1 that are tried: 0, -1
MaxAbove == 1        \* requested counts above 10 that are tried: 11
DetailCount == 1     \* quizzes up to this length try every outcome of every
                     \* option shuffle; longer ones one rotation for the quiz

None == "<None>"     \* Python's None in an optional field
MIDDLE_DOT == "*"    \* stands for U+00B7
DEGREE == "deg"      \* stands for U+00B0

(***************************************************************************)
(* Strings.                                                                *)
(***************************************************************************)
Char(s, i) == SubSeq(s, i, i)

UpperLetters == "ABCDEFGHIJKLMNOPQRSTUVWXYZ"
LowerLetters == "abcdefghijklmnopqrstuvwxyz"

\* str.lower() on one character
LowerChar(c) ==
    IF \E i \in 1..26 : Char(UpperLetters, i) = c
    THEN Char(LowerLetters, CHOOSE i \in 1..26 : Char(UpperLetters, i) = c)
    ELSE c

\* str.upper() on one character
UpperChar(c) ==
    IF \E i \in 1..26 : Char(LowerLetters, i) = c
    THEN Char(UpperLetters, CHOOSE i \in 1..26 : Char(LowerLetters, i) = c)
    ELSE c

RECURSIVE StrLower(_)
StrLower(s) == IF s = "" THEN "" ELSE LowerChar(Head(s)) \o StrLower(Tail(s))

RECURSIVE StrUpper(_)
StrUpper(s) == IF s = "" THEN "" ELSE UpperChar(Head(s)) \o StrUpper(Tail(s))

\* the characters str.strip() removes, as far as the inputs use them
Whitespace == {" ", "\n", "\t"}

RECURSIVE LStrip(_)
LStrip(s) == IF s # "" /\ Head(s) \in Whitespace THEN LStrip(Tail(s)) ELSE s

RECURSIVE RStrip(_)
RStrip(s) ==
    IF s # "" /\ Char(s, Len(s)) \in Whitespace
    THEN RStrip(SubSeq(s, 1, Len(s) - 1))
    ELSE s

\* str.strip()
Strip(s) == RStrip(LStrip(s))

\* str.replace(old, new) for a one-character old
RECURSIVE Replace(_, _, _)
Replace(s, old, new) ==
    IF s = "" THEN ""
    ELSE (IF Head(s) = old THEN new ELSE Head(s)) \o Replace(Tail(s), old, new)

\* the "in" operator on strings: sub occurs in s
Contains(sub, s) ==
    \E i \in 0..(Len(s) - Len(sub)) : SubSeq(s, i + 1, i + Len(sub)) = sub

\* str.split("\n")
RECURSIVE Split(_)
Split(s) ==
    IF \E i \in 1..Len(s) : Char(s, i) = "\n"
    THEN LET i == CHOOSE j \in 1..Len(s) :
                     /\ Char(s, j) = "\n"
                     /\ \A k \in 1..(j - 1) : Char(s, k) # "\n"
         IN  <<SubSeq(s, 1, i - 1)>> \o Split(SubSeq(s, i + 1, Len(s)))
    ELSE <<s>>

Max(S) == CHOOSE m \in S : \A n \in S : n <= m
Min(S) == CHOOSE m \in S : \A n \in S : m <= n


(***************************************************************************)
(* MOLECULE_DB (main.py:25-134).  A dict keeps insertion order, so the     *)
(* table is the sequence of its records, each carrying its key.            *)
(***************************************************************************)
MoleculeDbInit == <<
    [key |-> "H2O", name |-> "Water", bond_type |-> "Polar covalent",
     bond_angle |-> "104.5", single_bonds |-> 2, double_bonds |-> 0,
     shape |-> "Bent (V-shaped)",
     lewis |-> "H-O-H with two lone pairs on oxygen",
     lewis_text |-> "Lewis Structure of H2O: Oxygen in the center with two single bonds to H and two lone pairs on O.",
     explanation |-> "Oxygen forms two polar covalent bonds with hydrogen. Lone pairs on O push bonds, giving a bent shape and polarity.",
     lewis_ascii |-> "H :O: H\n   .. .."],
    [key |-> "CO2", name |-> "Carbon dioxide",
     bond_type |-> "Non-polar covalent (double bonds)",
     bond_angle |-> "180.0", single_bonds |-> 0, double_bonds |-> 2,
     shape |-> "Linear",
     lewis |-> "O=C=O",
     lewis_text |-> "Lewis Structure of CO2: Carbon in center with double bonds to two oxygens (O=C=O).",
     explanation |-> "Two equal C=O bonds arranged linearly cancel dipoles, so the molecule is non-polar.",
     lewis_ascii |-> "O = C = O"],
    [key |-> "CH4", name |-> "Methane", bond_type |-> "Non-polar covalent",
     bond_angle |-> "109.5", single_bonds |-> 4, double_bonds |-> 0,
     shape |-> "Tetrahedral",
     lewis |-> "Carbon in center with four single bonds to H",
     lewis_text |-> "Lewis Structure of CH4: Carbon in center with four single bonds to hydrogens (tetrahedral).",
     explanation |-> "Four equivalent C-H bonds arranged tetrahedrally make CH4 non-polar overall.",
     lewis_ascii |-> "    H\n    |\nH - C - H\n    |\n    H"],
    [key |-> "NH3", name |-> "Ammonia", bond_type |-> "Polar covalent",
     bond_angle |-> "107.0", single_bonds |-> 3, double_bonds |-> 0,
     shape |-> "Trigonal pyramidal",
     lewis |-> "N with three single bonds to H and one lone pair",
     lewis_text |-> "Lewis Structure of NH3: Nitrogen in center with three single bonds to H and one lone pair on N.",
     explanation |-> "Lone pair on nitrogen compresses H-N-H angles; N-H bonds are polar making NH3 polar.",
     lewis_ascii |-> "   H\n   |\nH-N: \n   |\n   H"],
    [key |-> "NaCl", name |-> "Sodium chloride", bond_type |-> "Ionic",
     bond_angle |-> None, single_bonds |-> 0, double_bonds |-> 0,
     shape |-> "Ionic lattice (not molecular)",
     lewis |-> "Na+ and Cl- ions",
     lewis_text |-> "Lewis Structure of NaCl: Na donates one electron to Cl forming Na+ and Cl-; ionic lattice in solid.",
     explanation |-> "Metal (Na) transfers an electron to nonmetal (Cl), forming oppositely charged ions that attract.",
     lewis_ascii |-> "[Na]+  :Cl:-"],
    [key |-> "HF", name |-> "Hydrogen fluoride",
     bond_type |-> "Polar covalent with strong hydrogen bonding between molecules",
     bond_angle |-> None, single_bonds |-> 1, double_bonds |-> 0,
     shape |-> "Diatomic",
     lewis |-> "H-F with three lone pairs on F",
     lewis_text |-> "Lewis Structure of HF: Single bond H-F with three lone pairs on F.",
     explanation |-> "Large electronegativity difference makes the bond highly polar.",
     lewis_ascii |-> "H-F:::"],
    [key |-> "O2", name |-> "Oxygen",
     bond_type |-> "Non-polar covalent (double bond)",
     bond_angle |-> None, single_bonds |-> 0, double_bonds |-> 1,
     shape |-> "Diatomic",
     lewis |-> "O=O",
     lewis_text |-> "Lewis Structure of O2: Double bond between two oxygens.",
     explanation |-> "Two identical atoms share electrons equally.",
     lewis_ascii |-> "O = O"],
    [key |-> "N2", name |-> "Nitrogen",
     bond_type |-> "Non-polar covalent (triple bond)",
     bond_angle |-> None, single_bonds |-> 0, double_bonds |-> 0,
     shape |-> "Diatomic",
     lewis |-> "N#N",
     lewis_text |-> "Lewis Structure of N2: Triple bond between two nitrogens.",
     explanation |-> "Two identical atoms share three pairs of electrons equally.",
     lewis_ascii |-> "N # N"],
    [key |-> "SO2", name |-> "Sulfur dioxide",
     bond_type |-> "Polar covalent (resonance; average bond order >1)",
     bond_angle |-> "119.0", single_bonds |-> 0, double_bonds |-> 2,
     shape |-> "Bent",
     lewis |-> "O=S=O (resonance forms)",
     lewis_text |-> "Lewis Structure of SO2: Bent molecule with resonance between S=O bonds.",
     explanation |-> "Electron domains around S make a bent shape; polar due to asymmetry.",
     lewis_ascii |-> "O = S = O"] >>

\* "f is a key of the table": dict.get(f) returns a record, not None
DbHas(db, f) == \E i \in 1..Len(db) : db[i].key = f

\* dict.get(f) on the table, for a key f
DbGet(db, f) == db[CHOOSE i \in 1..Len(db) : db[i].key = f]

(***************************************************************************)
(* normalize_formula (main.py:137-138)                                     *)
(***************************************************************************)
normalize_formula(s) == StrUpper(Replace(Replace(s, " ", ""), MIDDLE_DOT, "."))

(***************************************************************************)
(* make_lewis_svg (main.py:141-168).  The result is the data URI; it is    *)
(* kept as its scheme marker and the markup its base64 payload encodes:    *)
(* the svg element's width and height and the text elements in order.      *)
(***************************************************************************)
line_height == 22
padding == 16
glyph_width == 12

\* esc (main.py:151-154)
esc(t) == Replace(Replace(Replace(t, "&", "&amp;"), "<", "&lt;"), ">", "&gt;")

\* y of the text element of row i, 0-based (main.py:158)
TextYFromZero(i) == padding + i * line_height
TextY(i) == padding + (i + 1) * line_height

\* the text element of row i, 0-based (main.py:157-159)
TextElem(i, line) == [x |-> padding, y |-> TextY(i), text |-> esc(line)]

SvgWidth(lines) ==
    Max({Len(lines[i]) : i \in 1..Len(lines)}) * glyph_width + padding * 2

SvgHeight(lines) == Len(lines) * line_height + padding * 2

make_lewis_svg(formula, ascii_diagram) ==
    LET lines == Split(ascii_diagram)
    IN  [scheme |-> "data:image/svg+xml;base64,",
         width  |-> SvgWidth(lines),
         height |-> SvgHeight(lines),
         texts  |-> [i \in 1..Len(lines) |-> TextElem(i - 1, lines[i])]]


(***************************************************************************)
(* chat (main.py:215-246)                                                  *)
(***************************************************************************)
\* the glossary, in insertion order (main.py:219-226)
concepts == <<
    [term |-> "ionic", desc |-> "Ionic bonding happens when a metal transfers electrons to a nonmetal, forming oppositely charged ions that attract. Example: NaCl (sodium chloride)."],
    [term |-> "covalent", desc |-> "Covalent bonding is when two nonmetals share electron pairs to fill their outer shells. Example: H2 (hydrogen), CH4 (methane)."],
    [term |-> "metallic", desc |-> "Metallic bonding is a lattice of positive metal ions immersed in a 'sea' of delocalized electrons. This explains metals' conductivity and malleability."],
    [term |-> "coordinate", desc |-> "A coordinate (dative) covalent bond is a covalent bond where both shared electrons come from the same atom. Example: NH4+ forms when NH3 donates a lone pair to H+."],
    [term |-> "hydrogen", desc |-> "Hydrogen bonding is a strong dipole-dipole attraction between H attached to O, N, or F and a lone pair on a neighboring O, N, or F. Example: water molecules hydrogen-bond to each other."],
    [term |-> "vsepr", desc |-> "VSEPR theory predicts 3D shapes using electron pair repulsions: electron domains arrange to minimize repulsion (e.g., linear 180deg, trigonal planar 120deg, tetrahedral 109.5deg)."] >>

HelpReply ==
    "I can help with bonding concepts (ionic, covalent, metallic, coordinate, hydrogen) and common molecules like H2O, CO2, CH4, NH3, and NaCl. Ask: 'Explain ionic bonding' or 'Why is H2O polar?'"

ClarifyReply ==
    "Great question! Could you specify the concept (e.g., ionic bonding) or a molecule (e.g., H2O) you want to learn about?"

NotApplicable == "Bond Angle: Not applicable for diatomic/ionic lattice"

\* the condition of the molecule loop (main.py:229)
MoleculeMatches(data, q) ==
    Contains(StrLower(data.key), q) \/ Contains(StrLower(data.name), q)

\* the reply built for a matched record (main.py:230-236).  The adjacent
\* f-strings are one operand of the conditional expression: they are joined
\* first, and the conditional chooses between the joined text and the note.
MoleculeReply(data) ==
    LET reply == IF data.bond_angle # None
                 THEN "Molecule: " \o data.key \o "\n"
                      \o "Type of Bond: " \o data.bond_type \o "\n"
                      \o "Bond Angle: " \o data.bond_angle \o DEGREE
                 ELSE NotApplicable
        extra == "\nExplanation: " \o data.explanation
    IN  reply \o extra

\* the molecule loop from record i on (main.py:228-236): the reply of the
\* first record that matches, or None when the loop ends without a return
RECURSIVE LastMoleculeFrom(_, _, _)
LastMoleculeFrom(db, q, i) ==
    IF i < 1 THEN None
    ELSE IF MoleculeMatches(db[i], q) THEN MoleculeReply(db[i])
    ELSE LastMoleculeFrom(db, q, i - 1)

MoleculeLoopReversed(db, q) == LastMoleculeFrom(db, q, Len(db))

RECURSIVE MoleculeLoopFrom(_, _, _)
MoleculeLoopFrom(db, q, i) ==
    IF i > Len(db) THEN None
    ELSE IF MoleculeMatches(db[i], q) THEN MoleculeReply(db[i])
    ELSE MoleculeLoopFrom(db, q, i + 1)

MoleculeLoop(db, q) == MoleculeLoopFrom(db, q, 1)

\* the glossary loop from entry i on (main.py:238-240)
RECURSIVE ConceptLoopFrom(_, _)
ConceptLoopFrom(q, i) ==
    IF i > Len(concepts) THEN None
    ELSE IF Contains(concepts[i].term, q) THEN concepts[i].desc
    ELSE ConceptLoopFrom(q, i + 1)

\* the general fallbacks (main.py:243-246)
Fallback(q) ==
    IF Contains("what is", q) \/ Contains("explain", q) \/ Contains("define", q)
    THEN HelpReply
    ELSE ClarifyReply

\* chat's reply to a message, given the table
ChatReply(db, message) ==
    LET q == StrLower(Strip(message))
        m == MoleculeLoop(db, q)
        c == ConceptLoopFrom(q, 1)
    IN  IF m # None THEN m
        ELSE IF c # None THEN c
        ELSE Fallback(q)


(***************************************************************************)
(* QUIZ_BANK (main.py:249-292) and generate_quiz (main.py:294-321)         *)
(***************************************************************************)
QuizBankInit ==
    "Ionic Bonding" :> <<
        [q |-> "Which type of bond is formed between sodium and chlorine?",
         options |-> <<"Ionic", "Covalent", "Metallic", "Hydrogen">>,
         a |-> 0,
         e |-> "Na (metal) transfers an electron to Cl (nonmetal) forming ions."],
        [q |-> "What holds ions together in an ionic compound?",
         options |-> <<"Electrostatic attraction", "Electron sharing", "Magnetic forces", "Hydrogen bonds">>,
         a |-> 0,
         e |-> "Oppositely charged ions attract strongly."] >>
    @@ "Covalent Bonding" :> <<
        [q |-> "Which type of elements typically form covalent bonds?",
         options |-> <<"Two nonmetals", "Metal and nonmetal", "Two metals", "Metal and metalloid">>,
         a |-> 0,
         e |-> "Covalent bonds usually form between nonmetals sharing electrons."],
        [q |-> "In CO2, what type of bonds connect C and O?",
         options |-> <<"Double covalent", "Single covalent", "Ionic", "Metallic">>,
         a |-> 0,
         e |-> "Each oxygen shares two electrons with carbon (O=C=O)."] >>
    @@ "VSEPR Theory" :> <<
        [q |-> "Ideal bond angle in a tetrahedral geometry is...",
         options |-> <<"109.5deg", "180deg", "120deg", "90deg">>,
         a |-> 0,
         e |-> "Tetrahedral electron domain geometry gives 109.5deg."],
        [q |-> "The shape of CO2 according to VSEPR is...",
         options |-> <<"Linear", "Bent", "Trigonal pyramidal", "Tetrahedral">>,
         a |-> 0,
         e |-> "Two electron domains around carbon -> linear."] >>

\* the default quiz of an unknown topic (main.py:301-310)
FallbackBank(topic) == <<
    [q |-> "Basic question on " \o topic \o ": Covalent bonds are formed by...",
     options |-> <<"Sharing electrons", "Transferring electrons", "Sharing protons", "Magnetic forces">>,
     a |-> 0,
     e |-> "Covalent = sharing of electron pairs."],
    [q |-> "Ionic bonds usually form between...",
     options |-> <<"Metals and nonmetals", "Two nonmetals", "Two metals", "Noble gases">>,
     a |-> 0,
     e |-> "Metal + nonmetal -> electron transfer."] >>

MinItems == 1
MaxItems == 10
DefaultCount == 5

\* count = max(1, min(10, req.count or 5)) (main.py:297); "or" takes its
\* right operand when the left one is falsy, and 0 is the falsy integer
ClampCount(count) ==
    Max({MinItems, Min({MaxItems, IF count = 0 THEN DefaultCount ELSE count})})

\* QUIZ_BANK.get(topic) followed by "if not bank" (main.py:298-299):
\* the topic has a non-empty template list
BankFound(bank, topic) == topic \in DOMAIN bank /\ bank[topic] # <<>>

\* A list object is its value and whether it is the object the table holds
\* (shared) or a new list of the request.  The elements of a pool are the
\* template dicts of the bank themselves, named by their position in it.

\* bank * ((count + len(bank) - 1) // len(bank)) (main.py:312): list
\* repetition builds a new list
PoolList(n, count) ==
    LET k == (count + n - 1) \div n
    IN  [shared |-> FALSE, val |-> [i \in 1..(n * k) |-> ((i - 1) % n) + 1]]

\* item["options"][:] (main.py:316): the slice is a new list
CopyOptionsAlias(item) == [shared |-> TRUE, val |-> item.options]
CopyOptions(item) == [shared |-> FALSE, val |-> item.options]

\* the orders random.shuffle can leave a list of template positions in
\* (main.py:313): every rearrangement of it
ShuffleOutcomes(list) ==
    LET elems == {list[i] : i \in 1..Len(list)}
        Occ(s, v) == Cardinality({i \in 1..Len(s) : s[i] = v})
    IN  {s \in [1..Len(list) -> elems] : \A v \in elems : Occ(s, v) = Occ(list, v)}

\* the permutations of 1..n: the outcomes of shuffling a list of n options
Perms(n) == {p \in [1..n -> 1..n] : \A i, j \in 1..n : p[i] = p[j] => i = j}

\* random.shuffle(options) (main.py:318) under the outcome p
ApplyPerm(options, p) == [i \in 1..Len(options) |-> options[p[i]]]

\* the rotations of 1..n: they bring every option to every position
Rotations(n) == {[i \in 1..n |-> ((i + r - 1) % n) + 1] : r \in 0..(n - 1)}

\* the outcomes drawn for the option shuffles of a quiz of count items
DrawChoices(count, n) ==
    IF count <= DetailCount
    THEN [1..count -> Perms(n)]
    ELSE {[i \in 1..count |-> p] : p \in Rotations(n)}

\* options.index(correct_text) (main.py:319), 0-based: the first occurrence
CorrectIndexStale(item, options, correct_text) == item.a
CorrectIndex(item, options, correct_text) ==
    Min({i \in 1..Len(options) : options[i] = correct_text}) - 1

\* the loop over pool[:count] from its i-th element on (main.py:315-320);
\* tpl holds the template dicts by position, items the items so far
RECURSIVE ItemLoop(_, _, _, _, _)
ItemLoop(i, sel, draws, tpl, items) ==
    IF i > Len(sel) THEN [items |-> items, tpl |-> tpl]
    ELSE LET item == tpl[sel[i]]
             options == CopyOptions(item)
             correct_text == options.val[item.a + 1]
             shuffled == ApplyPerm(options.val, draws[i])
             correct_index == CorrectIndex(item, shuffled, correct_text)
             quizItem == [question |-> item.q, options |-> shuffled,
                          correct_index |-> correct_index,
                          explanation |-> item.e]
             tpl2 == IF options.shared
                     THEN [tpl EXCEPT ![sel[i]].options = shuffled]
                     ELSE tpl
         IN  ItemLoop(i + 1, sel, draws, tpl2, Append(items, quizItem))

\* pool[:count] (main.py:315)
Take(pool, count) == SubSeq(pool, 1, Min({count, Len(pool)}))

\* the handler on the table, for one outcome of the pool shuffle and one
\* choice of the option shuffles: the items and the table it leaves
QuizRun(bankTable, topicIn, countIn, shuffled, draws) ==
    LET topic == Strip(topicIn)
        count == ClampCount(countIn)
        found == BankFound(bankTable, topic)
        bank == IF found THEN bankTable[topic] ELSE FallbackBank(topic)
        pool == PoolList(Len(bank), count)
        run == ItemLoop(1, Take(shuffled, count), draws, bank, <<>>)
        order == IF pool.shared THEN shuffled ELSE [i \in 1..Len(bank) |-> i]
        after == [i \in 1..Len(bank) |-> run.tpl[order[i]]]
    IN  [items |-> run.items,
         table |-> IF found THEN [bankTable EXCEPT ![topic] = after]
                   ELSE bankTable]

(***************************************************************************)
(* analyze_molecule (main.py:324-369)                                      *)
(***************************************************************************)
\* the heuristic fallback (main.py:330-354)
HeuristicRaw(raw, f) ==
    [formula |-> f, name |-> None, bond_type |-> "Covalent (heuristic)",
     bond_angle |-> None, single_bonds |-> 0, double_bonds |-> 0,
     shape |-> None,
     explanation |-> "This is a generic estimate. For exact details, try a common molecule from the examples.",
     lewis_text |-> "Lewis structure for " \o f \o " is not in the quick database. Try H2O, CO2, CH4, NH3, or NaCl.",
     lewis_ascii |-> raw,
     lewis_svg |-> make_lewis_svg(f, raw)]
Heuristic(raw, f) ==
    [formula |-> f, name |-> None, bond_type |-> "Covalent (heuristic)",
     bond_angle |-> None, single_bonds |-> 0, double_bonds |-> 0,
     shape |-> None,
     explanation |-> "This is a generic estimate. For exact details, try a common molecule from the examples.",
     lewis_text |-> "Lewis structure for " \o f \o " is not in the quick database. Try H2O, CO2, CH4, NH3, or NaCl.",
     lewis_ascii |-> f,
     lewis_svg |-> make_lewis_svg(f, f)]

\* the answer from a record (main.py:356-369); every record of the table
\* has all the fields, so no default of a .get applies
FromRecord(f, data) ==
    [formula |-> f, name |-> data.name, bond_type |-> data.bond_type,
     bond_angle |-> data.bond_angle, single_bonds |-> data.single_bonds,
     double_bonds |-> data.double_bonds, shape |-> data.shape,
     explanation |-> data.explanation, lewis_text |-> data.lewis_text,
     lewis_ascii |-> data.lewis_ascii,
     lewis_svg |-> make_lewis_svg(f, data.lewis_ascii)]

Analysis(db, formula) ==
    LET f == normalize_formula(formula)
    IN  IF ~DbHas(db, f) THEN Heuristic(formula, f) ELSE FromRecord(f, DbGet(db, f))


(***************************************************************************)
(* The requests tried.                                                     *)
(***************************************************************************)
Keys == {MoleculeDbInit[i].key : i \in 1..Len(MoleculeDbInit)}
Names == {MoleculeDbInit[i].name : i \in 1..Len(MoleculeDbInit)}
Terms == {concepts[i].term : i \in 1..Len(concepts)}

\* the strings of at most n characters over an alphabet
RECURSIVE StringsUpTo(_, _)
StringsUpTo(n, alphabet) ==
    IF n = 0 THEN {""}
    ELSE LET shorter == StringsUpTo(n - 1, alphabet)
         IN  shorter \cup {s \o c : s \in shorter, c \in alphabet}

\* s with a space put before its i-th character
SpaceAt(s, i) == SubSeq(s, 1, i - 1) \o " " \o SubSeq(s, i, Len(s))

\* a stored key written otherwise: in another case, with spaces around or
\* inside it
KeyVariants(k) ==
    {k, StrLower(k), StrUpper(k), " " \o k \o " ", "  " \o StrLower(k)}
    \cup {SpaceAt(k, i) : i \in 2..Len(k)}

FormulaAlphabet == {"H", "h", "O", "2", " ", MIDDLE_DOT}

FormulaInputs ==
    UNION {KeyVariants(k) : k \in Keys}
    \cup {"XYZ123", "xyz", "H2O2", "CuSO4*5H2O", "C6H12O6", "H\nO", "Water"}
    \cup StringsUpTo(MaxFormulaLen, FormulaAlphabet)

DiagramAlphabet == {"H", "\n", "&", "<", ">"}
DiagramInputs == StringsUpTo(MaxLen, DiagramAlphabet)

MessageWords ==
    Keys \cup Names \cup Terms
    \cup {StrLower(k) : k \in Keys} \cup {StrUpper(n) : n \in Names}
    \cup {"what is", "Explain", "define", "", "hello", "IONIC", "Covalent",
          "ion", "H2", "water vs. hydrogen", "metallic or ionic"}
MessagePrefixes == {"", "  ", "Explain ", "Why is "}
MessageSuffixes == {"", " \n", " polar?", " bonding", " and O2"}
MessageInputs ==
    {p \o w \o x : p \in MessagePrefixes, w \in MessageWords, x \in MessageSuffixes}

TopicInputs ==
    {"Ionic Bonding", "  Covalent Bonding\n", "VSEPR Theory", "Nonexistent", ""}
CountInputs == (MinItems - MaxBelow)..(MaxItems + MaxAbove)

(***************************************************************************)
(* The state machine: a request is handled, its response returned, and the *)
(* per-request values are dropped.                                         *)
(***************************************************************************)
NoValue == "-"

Init ==
    /\ MOLECULE_DB = MoleculeDbInit
    /\ QUIZ_BANK = QuizBankInit
    /\ pc = "idle"
    /\ op = NoValue
    /\ req = NoValue
    /\ resp = NoValue

\* POST /api/chat
Chat ==
    /\ pc = "idle"
    /\ \E message \in MessageInputs :
        /\ req' = message
        /\ resp' = [reply |-> ChatReply(MOLECULE_DB, message)]
    /\ op' = "chat"
    /\ pc' = "done"
    /\ UNCHANGED <<MOLECULE_DB, QUIZ_BANK>>

\* POST /api/quiz
GenerateQuiz ==
    /\ pc = "idle"
    /\ \E topic \in TopicInputs, count \in CountInputs :
        LET found == BankFound(QUIZ_BANK, Strip(topic))
            bank == IF found THEN QUIZ_BANK[Strip(topic)]
                    ELSE FallbackBank(Strip(topic))
            pool == PoolList(Len(bank), ClampCount(count))
        IN  \E shuffled \in ShuffleOutcomes(pool.val),
               draws \in DrawChoices(ClampCount(count), Len(bank[1].options)) :
                LET run == QuizRun(QUIZ_BANK, topic, count, shuffled, draws)
                IN  /\ req' = [topic |-> topic, count |-> count]
                    /\ resp' = [items |-> run.items]
                    /\ QUIZ_BANK' = run.table
    /\ op' = "quiz"
    /\ pc' = "done"
    /\ UNCHANGED MOLECULE_DB

\* POST /api/molecule/analyze
AnalyzeMolecule ==
    /\ pc = "idle"
    /\ \E formula \in FormulaInputs :
        /\ req' = formula
        /\ resp' = Analysis(MOLECULE_DB, formula)
    /\ op' = "analyze"
    /\ pc' = "done"
    /\ UNCHANGED <<MOLECULE_DB, QUIZ_BANK>>

\* a call of make_lewis_svg on a diagram text of its own
RenderDiagram ==
    /\ pc = "idle"
    /\ \E ascii_diagram \in DiagramInputs :
        /\ req' = ascii_diagram
        /\ resp' = make_lewis_svg("", ascii_diagram)
    /\ op' = "svg"
    /\ pc' = "done"
    /\ UNCHANGED <<MOLECULE_DB, QUIZ_BANK>>

\* the response is sent; the request's values are discarded
Return ==
    /\ pc = "done"
    /\ pc' = "idle"
    /\ op' = NoValue
    /\ req' = NoValue
    /\ resp' = NoValue
    /\ UNCHANGED <<MOLECULE_DB, QUIZ_BANK>>

Next == Chat \/ GenerateQuiz \/ AnalyzeMolecule \/ RenderDiagram \/ Return

Spec == Init /\ [][Next]_vars


(***************************************************************************)
(* Properties.                                                             *)
(***************************************************************************)
Done(handler) == pc = "done" /\ op = handler

\* a is a rearrangement of b
IsPermutationOf(a, b) ==
    /\ Len(a) = Len(b)
    /\ \A v \in {a[i] : i \in 1..Len(a)} \cup {b[i] : i \in 1..Len(b)} :
        Cardinality({i \in 1..Len(a) : a[i] = v})
            = Cardinality({i \in 1..Len(b) : b[i] = v})

\* the templates an item of a quiz on a topic can stem from: the topic's
\* list as written in the table, or the generic pair
SourceTemplates(topicIn) ==
    LET topic == Strip(topicIn)
        list == IF topic \in DOMAIN QuizBankInit THEN QuizBankInit[topic]
                ELSE FallbackBank(topic)
    IN  {list[i] : i \in 1..Len(list)}

\* the item is made from template t
MadeFrom(item, t) ==
    /\ item.question = t.q
    /\ item.explanation = t.e
    /\ IsPermutationOf(item.options, t.options)

\* the number of newlines of s
Newlines(s) == Cardinality({i \in 1..Len(s) : Char(s, i) = "\n"})

\* the length of the longest stretch of s without a newline
LongestLine(s) ==
    Max({d \in 0..Len(s) :
            \E a \in 0..(Len(s) - d) :
                \A k \in (a + 1)..(a + d) : Char(s, k) # "\n"})

\* line i (0-based) of s: the stretch between its i-th and (i+1)-th newline
LineOf(s, i) ==
    LET a == CHOOSE x \in 0..Len(s) :
                 /\ Newlines(SubSeq(s, 1, x)) = i
                 /\ (x = 0 \/ Char(s, x) = "\n")
        b == CHOOSE y \in a..Len(s) :
                 /\ Newlines(SubSeq(s, 1, y)) = i
                 /\ (y = Len(s) \/ Char(s, y + 1) = "\n")
    IN  SubSeq(s, a + 1, b)

\* C1: generate_quiz returns exactly count items for a count in 1..10,
\* exactly 1 item for every count below 1 (0 included) and exactly 10 items
\* for every count above 10.
C1_ExactlyClampedCount ==
    Done("quiz") =>
        Len(resp.items) = (IF req.count < 1 THEN 1
                           ELSE IF req.count > 10 THEN 10
                           ELSE req.count)

\* v is key k up to letter case and spaces
IsVariantOf(v, k) == StrLower(Replace(v, " ", "")) = StrLower(k)

\* C2: for every stored key, analyze_molecule on the key, on a variant in
\* another letter case or on a variant with spaces added returns the fields
\* of that key's record, never the heuristic placeholder.
C2_LookupCaseSpaceInsensitive ==
    Done("analyze") =>
        \A i \in 1..Len(MoleculeDbInit) :
            LET data == MoleculeDbInit[i]
            IN  IsVariantOf(req, data.key) =>
                    /\ resp.bond_type # "Covalent (heuristic)"
                    /\ resp.name = data.name
                    /\ resp.bond_type = data.bond_type
                    /\ resp.bond_angle = data.bond_angle
                    /\ resp.single_bonds = data.single_bonds
                    /\ resp.double_bonds = data.double_bonds
                    /\ resp.shape = data.shape
                    /\ resp.explanation = data.explanation
                    /\ resp.lewis_text = data.lewis_text
                    /\ resp.lewis_ascii = data.lewis_ascii

\* the positions of the records whose key or display name occurs in q
MatchingRecords(q) ==
    {i \in 1..Len(MoleculeDbInit) :
        \/ Contains(StrLower(MoleculeDbInit[i].key), q)
        \/ Contains(StrLower(MoleculeDbInit[i].name), q)}

\* C3: whenever chat matches a molecule record, the reply contains the line
\* "Molecule: <key>", the record's bond classification, the angle followed
\* by the degree sign (or the not-applicable note when the record has no
\* angle) and the record's explanation.
C3_MoleculeReplyComplete ==
    Done("chat") =>
        LET q == StrLower(Strip(req))
        IN  MatchingRecords(q) # {} =>
                LET data == MoleculeDbInit[Min(MatchingRecords(q))]
                IN  /\ Contains("Molecule: " \o data.key, resp.reply)
                    /\ Contains(data.bond_type, resp.reply)
                    /\ IF data.bond_angle # None
                       THEN Contains(data.bond_angle \o DEGREE, resp.reply)
                       ELSE Contains(NotApplicable, resp.reply)
                    /\ Contains(data.explanation, resp.reply)

\* C4: for every item generate_quiz returns, options[correct_index] is the
\* text the source template marks correct, and the item's options are a
\* rearrangement of the template's options.
C4_CorrectIndexFollowsShuffle ==
    Done("quiz") =>
        \A n \in 1..Len(resp.items) :
            LET item == resp.items[n]
            IN  \E t \in SourceTemplates(req.topic) :
                    /\ item.question = t.q
                    /\ IsPermutationOf(item.options, t.options)
                    /\ item.correct_index \in 0..(Len(item.options) - 1)
                    /\ item.options[item.correct_index + 1] = t.options[t.a + 1]

\* a quiz whose shuffle moved the correct option away from its template
\* position, the returned index pointing at it
C4_Witness ==
    /\ Done("quiz")
    /\ \E n \in 1..Len(resp.items), t \in SourceTemplates(req.topic) :
        /\ resp.items[n].question = t.q
        /\ resp.items[n].options # t.options
        /\ resp.items[n].correct_index # t.a
        /\ resp.items[n].options[resp.items[n].correct_index + 1] = t.options[t.a + 1]

\* C5: for every formula whose normalized form is no key of the table (the
\* empty string included) analyze_molecule returns the heuristic placeholder:
\* bond_type "Covalent (heuristic)", zero bond counts, null angle, shape and
\* name, formula and lewis_ascii the normalized formula, and a diagram URI
\* that is not empty.
C5_HeuristicOnMiss ==
    Done("analyze") =>
        LET f == StrUpper(Replace(Replace(req, " ", ""), MIDDLE_DOT, "."))
        IN  f \notin Keys =>
                /\ resp.bond_type = "Covalent (heuristic)"
                /\ resp.single_bonds = 0
                /\ resp.double_bonds = 0
                /\ resp.bond_angle = None
                /\ resp.shape = None
                /\ resp.name = None
                /\ resp.formula = f
                /\ resp.lewis_ascii = f
                /\ Len(resp.lewis_svg.scheme) > 0
                /\ Len(resp.lewis_svg.texts) >= 1
                /\ resp.lewis_svg.texts[1].text = esc(LineOf(f, 0))

\* the empty formula answered with the placeholder
C5_Witness ==
    /\ Done("analyze")
    /\ req = ""
    /\ resp.bond_type = "Covalent (heuristic)"
    /\ resp.formula = ""
    /\ Len(resp.lewis_svg.texts) = 1

\* the positions of the glossary keywords that occur in q
MatchingTerms(q) == {i \in 1..Len(concepts) : Contains(concepts[i].term, q)}

\* C6: chat answers every message by the first applicable step, on the
\* trimmed, lower-cased message: the first record in insertion order whose
\* key or name occurs in it; else the explanation of the first glossary
\* keyword that occurs in it; else the help message when it contains
\* "what is", "explain" or "define"; else the clarification prompt.  A
\* message that matches no molecule and contains "ionic" gets the ionic
\* bonding explanation verbatim.
C6_ChatPriorityOrder ==
    Done("chat") =>
        LET q == StrLower(Strip(req))
            r == resp.reply
        IN  /\ IF MatchingRecords(q) # {}
               THEN LET data == MoleculeDbInit[Min(MatchingRecords(q))]
                        tail == "\nExplanation: " \o data.explanation
                    IN  /\ Len(r) >= Len(tail)
                        /\ SubSeq(r, Len(r) - Len(tail) + 1, Len(r)) = tail
                        /\ \A i \in 1..Len(concepts) : r # concepts[i].desc
               ELSE IF MatchingTerms(q) # {}
               THEN r = concepts[Min(MatchingTerms(q))].desc
               ELSE IF \E w \in {"what is", "explain", "define"} : Contains(w, q)
               THEN r = HelpReply
               ELSE r = ClarifyReply
            /\ (MatchingRecords(q) = {} /\ Contains("ionic", q))
                   => r = concepts[1].desc

\* "Explain ionic bonding" answered with the ionic bonding explanation
C6_Witness ==
    /\ Done("chat")
    /\ req = "Explain ionic bonding"
    /\ resp.reply = concepts[1].desc

\* C7: every item comes from the template list of the requested topic
\* (trimmed); when the topic is no key of the quiz bank every item comes
\* from the generic pair and the number of items is still the clamped count.
C7_ItemsFromTopicOrFallback ==
    Done("quiz") =>
        LET topic == Strip(req.topic)
            items == resp.items
        IN  /\ topic \in DOMAIN QuizBankInit =>
                \A n \in 1..Len(items) :
                    \E i \in 1..Len(QuizBankInit[topic]) :
                        MadeFrom(items[n], QuizBankInit[topic][i])
            /\ topic \notin DOMAIN QuizBankInit =>
                /\ \A n \in 1..Len(items) :
                    \E i \in 1..2 : MadeFrom(items[n], FallbackBank(topic)[i])
                /\ Len(items) = (IF req.count < 1 THEN 1
                                 ELSE IF req.count > 10 THEN 10
                                 ELSE req.count)

\* C8: for an input of n lines (the empty string has one, empty, line) the
\* canvas is 12 x (longest line length) + 32 wide and 22 x n + 32 high, both
\* positive, and the markup has exactly n text elements in input-line order,
\* the i-th (0-based) at x = 16 and y = 16 + 22 x (i + 1).
C8_ReferenceLayout ==
    Done("svg") =>
        LET n == Newlines(req) + 1
        IN  /\ resp.width = 12 * LongestLine(req) + 32
            /\ resp.height = 22 * n + 32
            /\ resp.width > 0
            /\ resp.height > 0
            /\ Len(resp.texts) = n
            /\ \A i \in 0..(n - 1) :
                /\ resp.texts[i + 1].x = 16
                /\ resp.texts[i + 1].y = 16 + 22 * (i + 1)
                /\ resp.texts[i + 1].text = esc(LineOf(req, i))

\* the empty diagram text laid out as one empty line
C8_Witness ==
    /\ Done("svg")
    /\ req = ""
    /\ resp.width = 32
    /\ resp.height = 54
    /\ Len(resp.texts) = 1
    /\ resp.texts[1] = [x |-> 16, y |-> 38, text |-> ""]

C10_ExactKeyOwnRecord ==
    Done("chat") =>
        \A i \in 1..Len(MoleculeDbInit) :
            LET data == MoleculeDbInit[i]
            IN  (req = data.key \/ req = data.name) =>
                    Contains(data.explanation, resp.reply)

=============================================================================
